---- MODULE Spec2Model ----
(***************************************************************************)
(* ESG risk dashboard: the text/date utilities (esg/utils.py), the article *)
(* source (esg/clients.py), the scoring engine and profile service         *)
(* (esg/services.py) and the search-history repository (esg/history.py).   *)
(*                                                                         *)
(* Conventions of the model                                                *)
(*   - a Python string is a TLA+ string, except a company name, which is a *)
(*     sequence of one-character strings so that strip / re.sub / lower    *)
(*     are computed character by character;                                *)
(*   - None and "" (both falsy) of an optional string are "" ;             *)
(*   - an optional datetime is a sequence of length 0 (None) or 1;         *)
(*   - a datetime is [aware, t]: tzinfo set or not, and the instant it     *)
(*     denotes when read as UTC;                                           *)
(*   - a call that may raise yields [exc, val]: exc = "none" and the       *)
(*     returned value, or the exception's class name.                      *)
(***************************************************************************)
EXTENDS Integers, Sequences, FiniteSets, TLC

VARIABLES
    now,        \* the wall clock (datetime.utcnow / timezone.now / cache clock)
    keyed,      \* the last cache-key derivation: two names and what was derived
    fcall,      \* one fetch_articles call: its inputs and its outcome
    acall,      \* one _analyse_articles call: its inputs and its outcome
    configured, \* bool(OpenAI and settings.OPENAI_API_KEY), fixed for a run
    cache,      \* django.core.cache: key -> the entry set, with its expiry
    req,        \* per caller: its get_company_esg_profile call in progress
    started,    \* calls of get_company_esg_profile begun so far
    history,    \* the SearchHistory table, in insertion order
    hcall       \* the last repository operation: its inputs and its outcome

vars == <<now, keyed, fcall, acall, configured, cache, req, started, history, hcall>>

(***************************************************************************)
(* Bounds of the model                                                     *)
(***************************************************************************)
MaxNameLen == 4      \* longest company name drawn, in characters
MaxArticles == 2     \* most raw items in one oracle response
MaxLimit == 2        \* largest limit passed to fetch / get_recent_searches
MaxTime == 2         \* the clock runs 0..MaxTime
MaxOracleItems == 2  \* most items in one scoring report
CacheTimeout == 2    \* ESGService.cache_timeout, in ticks of the clock
MaxCalls == 3        \* calls of get_company_esg_profile in one run
MaxHistory == 2      \* most rows of the SearchHistory table

Alphabet == {"A", "a", " "}
Whitespace == {" "}

SeqsUpTo(S, n) == UNION {[1..k -> S] : k \in 0..n}
Names == SeqsUpTo(Alphabet, MaxNameLen)
Times == 0..MaxTime

Ok(v) == [exc |-> "none", val |-> v]
Raise(e) == [exc |-> e, val |-> <<>>]

(***************************************************************************)
(* esg/utils.py: normalize_company_name, make_cache_key                    *)
(***************************************************************************)
IsSpace(c) == c \in Whitespace

RECURSIVE lstrip(_)
lstrip(s) ==
    IF s = <<>> THEN <<>>
    ELSE IF IsSpace(Head(s)) THEN lstrip(Tail(s)) ELSE s

RECURSIVE rstrip(_)
rstrip(s) ==
    IF s = <<>> THEN <<>>
    ELSE IF IsSpace(s[Len(s)]) THEN rstrip(SubSeq(s, 1, Len(s) - 1)) ELSE s

\* str.strip()
strip(s) == rstrip(lstrip(s))

\* re.sub(r"\s+", " ", s): every maximal run of whitespace becomes one space
RECURSIVE CollapseWhitespace(_)
CollapseWhitespace(s) ==
    IF s = <<>> THEN <<>>
    ELSE IF IsSpace(Head(s)) THEN <<" ">> \o CollapseWhitespace(lstrip(s))
    ELSE <<Head(s)>> \o CollapseWhitespace(Tail(s))

\* a slip: trims, and leaves the internal runs alone
normalize_no_collapse(name) == strip(name)

normalize_company_name(name) == CollapseWhitespace(strip(name))

LowerChar(c) == IF c = "A" THEN "a" ELSE c

\* str.lower()
lower(s) == [i \in 1..Len(s) |-> LowerChar(s[i])]

\* hashlib.sha1(...).hexdigest(): a digest that tells any two inputs of the
\* model apart (no collision among the names drawn)
sha1_hexdigest(s) == <<"sha1">> \o s

\* a slip: only the first character of the name goes into the digest
make_cache_key_first_char(company_name) ==
    LET lowered == lower(normalize_company_name(company_name))
    IN  <<"esg:company:">> \o sha1_hexdigest(SubSeq(lowered, 1, IF lowered = <<>> THEN 0 ELSE 1))

make_cache_key(company_name) ==
    <<"esg:company:">> \o sha1_hexdigest(lower(normalize_company_name(company_name)))

\* the key get_company_esg_profile looks up: it normalizes, then make_cache_key
\* normalizes again
ServiceCacheKey(company_name) == make_cache_key(normalize_company_name(company_name))

(***************************************************************************)
(* esg/utils.py: safe_parse_datetime, ensure_aware                         *)
(***************************************************************************)
\* what an oracle item carries as published_at: nothing, text no parser
\* accepts, a timestamp without an offset, a timestamp with one
DateFormats == {"missing", "bad", "naive", "aware"}
DateInputs ==
    {[fmt |-> "missing", t |-> 0], [fmt |-> "bad", t |-> 0]}
        \cup [fmt : {"naive", "aware"}, t : 1..2]

ensure_aware(dt) == IF dt.aware THEN dt ELSE [dt EXCEPT !.aware = TRUE]

\* parser.parse(value) / datetime.fromisoformat(value)
ParseDate(value) ==
    IF value.fmt = "bad" THEN Raise("ValueError")
    ELSE Ok([aware |-> value.fmt = "aware", t |-> value.t])

safe_parse_datetime(value) ==
    IF value.fmt = "missing" THEN <<>>
    ELSE LET parsed == ParseDate(value)
         IN  IF parsed.exc # "none" THEN <<>> ELSE <<ensure_aware(parsed.val)>>

\* datetime.utcnow(): the current instant, with no tzinfo
utcnow(clock) == [aware |-> FALSE, t |-> clock]

\* datetime.min, naive
datetime_min == [aware |-> FALSE, t |-> -1]

(***************************************************************************)
(* esg/utils.py: deduplicate_articles, take_latest                         *)
(***************************************************************************)
\* next((kc for kc in (url, title) if kc), None), "" when there is none
UniqueKey(entry) == IF entry.url # "" THEN entry.url ELSE entry.title

RECURSIVE DedupFrom(_, _)
DedupFrom(entries, seen) ==
    IF entries = <<>> THEN <<>>
    ELSE LET entry == Head(entries)
             unique_key == UniqueKey(entry)
         IN  IF unique_key = "" THEN DedupFrom(Tail(entries), seen)
             ELSE IF unique_key \in seen THEN DedupFrom(Tail(entries), seen)
             ELSE <<entry>> \o DedupFrom(Tail(entries), seen \cup {unique_key})

deduplicate_articles(entries) == DedupFrom(entries, {})

\* key=lambda item: item.get('published_at') or datetime.min
SortKey(item) == item.published_at

\* datetime.__lt__ raises TypeError between an offset-naive and an
\* offset-aware value; any sort of two or more entries of both kinds compares
\* such a pair
KeysComparable(entries) ==
    \A i, j \in 1..Len(entries) : SortKey(entries[i]).aware = SortKey(entries[j]).aware

\* sorted(..., reverse=True) is stable: x goes after every entry whose key is
\* not smaller
RECURSIVE InsertDescending(_, _)
InsertDescending(sorted, x) ==
    IF sorted = <<>> THEN <<x>>
    ELSE IF SortKey(Head(sorted)).t >= SortKey(x).t
         THEN <<Head(sorted)>> \o InsertDescending(Tail(sorted), x)
         ELSE <<x>> \o sorted

RECURSIVE SortedDescending(_)
SortedDescending(entries) ==
    IF entries = <<>> THEN <<>>
    ELSE InsertDescending(SortedDescending(SubSeq(entries, 1, Len(entries) - 1)),
                          entries[Len(entries)])

Min(a, b) == IF a <= b THEN a ELSE b

\* sorted_entries[:limit], limit >= 0
Prefix(s, limit) == SubSeq(s, 1, Min(limit, Len(s)))

take_latest(entries, limit) ==
    IF ~KeysComparable(entries) THEN Raise("TypeError")
    ELSE Ok(Prefix(SortedDescending(entries), limit))

(***************************************************************************)
(* esg/clients.py: _parse_articles_payload, fetch_articles                 *)
(*                                                                         *)
(* The oracle's answer is either a transport failure or a text.  A text is *)
(* modelled by what the three extraction strategies see in it: how the     *)
(* JSON is wrapped (bare, in a ``` fence, inside prose) and what the JSON  *)
(* is (an object, an array without braces such as [], nothing parsable).   *)
(***************************************************************************)
Titles == {"", "T1"}
Urls == {"", "U1", "U2"}

RawItemsWith(titles, descriptions, urls, dates) ==
    [title : titles, description : descriptions, url : urls, source : {"S"},
     published_at : dates]

RawItems == RawItemsWith(Titles, {""}, Urls, DateInputs)

NoPayload == [json |-> "invalid", has_articles |-> FALSE, articles |-> <<>>]
ArrayPayload == [json |-> "array", has_articles |-> FALSE, articles |-> <<>>]
ObjectPayload(items) == [json |-> "object", has_articles |-> TRUE, articles |-> items]
\* an object without the key "articles"
BareObjectPayload == [json |-> "object", has_articles |-> FALSE, articles |-> <<>>]

Wraps == {"bare", "fenced", "prose"}

TransportError == [kind |-> "transport_error", wrap |-> "bare", body |-> NoPayload]
Text(wrap, body) == [kind |-> "text", wrap |-> wrap, body |-> body]

PayloadsOver(items, n) ==
    {NoPayload, ArrayPayload, BareObjectPayload}
        \cup {ObjectPayload(s) : s \in SeqsUpTo(items, n)}

ResponsesOver(items, n) ==
    {TransportError} \cup {Text(w, b) : w \in Wraps, b \in PayloadsOver(items, n)}

\* json.loads(text): the whole text is one JSON value
DirectParse(text) ==
    IF text.wrap = "bare" /\ text.body.json # "invalid" THEN Ok(text.body)
    ELSE Raise("JSONDecodeError")

\* re.findall(r"```(?:json)?\s*(\{.*?\})\s*```", ...): the fenced blocks that
\* hold an object, each parsed in turn
FencedParse(text) ==
    IF text.wrap = "fenced" /\ text.body.json = "object" THEN Ok(text.body)
    ELSE Raise("JSONDecodeError")

\* text[text.find('{') : text.rfind('}') + 1], parsed
SliceParse(text) ==
    IF text.body.json = "object" THEN Ok(text.body)
    ELSE Raise("JSONDecodeError")

_parse_articles_payload(raw_text) ==
    LET direct == DirectParse(raw_text)
        fenced == FencedParse(raw_text)
    IN  IF direct.exc = "none" THEN direct
        ELSE IF fenced.exc = "none" THEN fenced
        ELSE SliceParse(raw_text)

\* payload.get('articles', []): AttributeError on a value that is no dict
PayloadArticles(payload) ==
    IF payload.json # "object" THEN Raise("AttributeError")
    ELSE Ok(IF payload.has_articles THEN payload.articles ELSE <<>>)

\* the article built from one oracle item; clock is utcnow() at that item
ToArticle(item, clock) ==
    LET parsed == safe_parse_datetime(item.published_at)
    IN  [title |-> item.title,
         description |-> item.description,
         url |-> item.url,
         source |-> item.source,
         published_at |-> IF parsed # <<>> THEN parsed[1] ELSE utcnow(clock),
         source_type |-> "openai_web_search"]

\* the loop over payload['articles']; the clock advances by step per item
ToArticles(items, clock, step) ==
    [i \in 1..Len(items) |-> ToArticle(items[i], clock + (i - 1) * step)]

fetch_articles(is_configured, response, limit, clock, step) ==
    IF ~is_configured THEN Ok(<<>>)
    ELSE IF response.kind = "transport_error" THEN Ok(<<>>)
    ELSE LET payload == _parse_articles_payload(response)
         IN  IF payload.exc # "none" THEN Ok(<<>>)
             ELSE LET items == PayloadArticles(payload.val)
                  IN  IF items.exc # "none" THEN items
                      ELSE take_latest(
                               deduplicate_articles(ToArticles(items.val, clock, step)),
                               limit)

(***************************************************************************)
(* esg/keywords.py and esg/utils.py: detect_esg_aspects                    *)
(***************************************************************************)
ENVIRONMENTAL_KEYWORDS ==
    {"emission", "emissions", "carbon", "pollution", "climate", "waste",
     "deforestation", "environment", "biodiversity", "renewable", "sustainability",
     "water scarcity", "pipeline leak", "oil spill", "toxic", "greenhouse",
     "air quality"}

SOCIAL_KEYWORDS ==
    {"labour", "labor", "worker", "strike", "union", "discrimination", "harassment",
     "human rights", "privacy", "safety", "fatality", "community", "protest",
     "diversity", "inclusive"}

GOVERNANCE_KEYWORDS ==
    {"governance", "board", "fraud", "bribery", "audit", "corruption",
     "whistleblower", "accounting", "transparency", "sebi", "sec", "compliance",
     "tax evasion", "money laundering", "insider trading"}

Aspects == <<"environment", "social", "governance">>

ESG_KEYWORDS(aspect) ==
    CASE aspect = "environment" -> ENVIRONMENTAL_KEYWORDS
      [] aspect = "social" -> SOCIAL_KEYWORDS
      [] aspect = "governance" -> GOVERNANCE_KEYWORDS

\* the texts an article carries, and the keywords that occur in text.lower()
Descriptions == {"", "Oil Spill off the coast", "Strike over audit"}

KeywordsWithin(text) ==
    CASE text = "Oil Spill off the coast" -> {"oil spill"}
      [] text = "Strike over audit" -> {"strike", "audit"}
      [] OTHER -> {}

\* ' '.join(filter(None, [title, description])), as the keywords within it
JoinedKeywords(title, description) == KeywordsWithin(title) \cup KeywordsWithin(description)

\* the aspects one of whose keywords occurs in the text
detect_esg_aspects(keywords_in_text) ==
    {Aspects[i] : i \in {k \in 1..3 : ESG_KEYWORDS(Aspects[k]) \cap keywords_in_text # {}}}

(***************************************************************************)
(* esg/services.py: scores.  A score is a number of hundredths, so that    *)
(* round(x, 2) is a rounding to an integer.                                *)
(***************************************************************************)
WEIGHT_ENVIRONMENT == 4
WEIGHT_SOCIAL == 3
WEIGHT_GOVERNANCE == 3
BASE_SCORE == 70
MAX_SCORE == 100
LOOKBACK_DAYS == 730

Hundredths(n) == n * 100

\* a JSON value given as a score: a number, or a value float() rejects
\* (null, a missing key, a word)
Invalid == [kind |-> "invalid", v |-> 0]
Num(v) == [kind |-> "num", v |-> v]

\* round(num / den, 2) for num in hundredths: to the nearest, halves to even
RoundDiv(num, den) ==
    LET q == num \div den
        r == num % den
    IN  IF 2 * r < den THEN q
        ELSE IF 2 * r > den THEN q + 1
        ELSE IF q % 2 = 0 THEN q ELSE q + 1

_coerce_score(value, default) ==
    IF value.kind # "num" THEN default
    ELSE IF value.v < 0 THEN 0
    ELSE IF value.v > Hundredths(MAX_SCORE) THEN Hundredths(MAX_SCORE)
    ELSE value.v

\* a slip: the three axes weigh the same
_calculate_weighted_score_unweighted(scores) ==
    RoundDiv(_coerce_score(scores.environment, 0) + _coerce_score(scores.social, 0)
                 + _coerce_score(scores.governance, 0), 3)

_calculate_weighted_score(scores) ==
    LET total_weight == WEIGHT_ENVIRONMENT + WEIGHT_SOCIAL + WEIGHT_GOVERNANCE
        weighted_sum ==
            WEIGHT_ENVIRONMENT * _coerce_score(scores.environment, 0)
            + WEIGHT_SOCIAL * _coerce_score(scores.social, 0)
            + WEIGHT_GOVERNANCE * _coerce_score(scores.governance, 0)
    IN  RoundDiv(weighted_sum, total_weight)

RECURSIVE SumOverall(_)
SumOverall(items) ==
    IF items = <<>> THEN 0 ELSE Head(items).scores.overall + SumOverall(Tail(items))

_compute_overall_score(items) ==
    IF items = <<>> THEN 0 ELSE RoundDiv(SumOverall(items), Len(items))

\* sorted(items, key=overall, reverse=True), stable
RECURSIVE InsertByScore(_, _)
InsertByScore(sorted, x) ==
    IF sorted = <<>> THEN <<x>>
    ELSE IF Head(sorted).scores.overall >= x.scores.overall
         THEN <<Head(sorted)>> \o InsertByScore(Tail(sorted), x)
         ELSE <<x>> \o sorted

RECURSIVE _sort_items_by_score(_)
_sort_items_by_score(items) ==
    IF items = <<>> THEN <<>>
    ELSE InsertByScore(_sort_items_by_score(SubSeq(items, 1, Len(items) - 1)),
                       items[Len(items)])

\* isoformat(dt): ensure_aware(dt).isoformat()
isoformat(dt) == <<"iso", ensure_aware(dt).t>>

\* _format_display_date of an ISO string made by isoformat
_format_display_date(date_iso) == <<"day", date_iso[2]>>

(***************************************************************************)
(* esg/services.py: _analyse_with_heuristics                               *)
(***************************************************************************)
HeuristicItem(article) ==
    LET aspects == detect_esg_aspects(JoinedKeywords(article.title, article.description))
        score(aspect) == IF aspect \in aspects THEN Hundredths(BASE_SCORE) ELSE 0
        scores == [environment |-> Num(score("environment")),
                   social |-> Num(score("social")),
                   governance |-> Num(score("governance"))]
        date_iso == isoformat(article.published_at)
    IN  [title |-> article.title,
         description |-> article.description,
         date |-> date_iso,
         display_date |-> _format_display_date(date_iso),
         source |-> article.source,
         url |-> article.url,
         scores |-> [environment |-> score("environment"),
                     social |-> score("social"),
                     governance |-> score("governance"),
                     overall |-> _calculate_weighted_score(scores)]]

_analyse_with_heuristics(articles) ==
    LET items == _sort_items_by_score([i \in 1..Len(articles) |-> HeuristicItem(articles[i])])
    IN  [items |-> items, overall_score |-> _compute_overall_score(items)]

(***************************************************************************)
(* esg/services.py: _execute_openai_prompt, _analyse_with_openai,          *)
(* _normalize_item_structure, _analyse_articles                            *)
(***************************************************************************)
\* an item of the reasoning oracle's report; its date is an ISO string
OracleItemsWith(titles, env, soc, gov, overall) ==
    [title : titles, description : {""}, date : {<<"iso", 1>>}, source : {"S"},
     url : {"U1"},
     scores : [environment : env, social : soc, governance : gov, overall : overall]]

ScoringObject(items, overall_score) ==
    [json |-> "object", items |-> items, overall_score |-> overall_score]
ScoringArray == [json |-> "array", items |-> <<>>, overall_score |-> Invalid]
ScoringInvalid == [json |-> "invalid", items |-> <<>>, overall_score |-> Invalid]

ScoringTransportError ==
    [kind |-> "transport_error", wrap |-> "bare", body |-> ScoringInvalid]

\* client.responses.create(...).output_text, or the ESGServiceError the
\* transport failure is turned into
_execute_openai_prompt(response) ==
    IF response.kind = "transport_error" THEN Raise("ESGServiceError") ELSE Ok(response)

_normalize_item_structure(item) ==
    LET normalized_scores ==
            [environment |-> Num(_coerce_score(item.scores.environment, 0)),
             social |-> Num(_coerce_score(item.scores.social, 0)),
             governance |-> Num(_coerce_score(item.scores.governance, 0))]
    IN  [title |-> item.title,
         description |-> item.description,
         date |-> item.date,
         display_date |-> _format_display_date(item.date),
         source |-> item.source,
         url |-> item.url,
         scores |-> [environment |-> normalized_scores.environment.v,
                     social |-> normalized_scores.social.v,
                     governance |-> normalized_scores.governance.v,
                     overall |-> _coerce_score(
                                    item.scores.overall,
                                    _calculate_weighted_score(normalized_scores))]]

\* parsed.get(...): AttributeError on a JSON value that is no dict
ParsedReport(parsed) ==
    IF parsed.json # "object" THEN Raise("AttributeError") ELSE Ok(parsed)

_analyse_with_openai(articles, response) ==
    LET response_text == _execute_openai_prompt(response)
    IN  IF response_text.exc # "none" THEN response_text
        ELSE LET loaded == DirectParse(response_text.val)
             IN  IF loaded.exc # "none" THEN Raise("ESGServiceError")
                 ELSE LET parsed == ParsedReport(loaded.val)
                      IN  IF parsed.exc # "none" THEN parsed
                          ELSE LET items == _sort_items_by_score(
                                       [i \in 1..Len(parsed.val.items) |->
                                           _normalize_item_structure(parsed.val.items[i])])
                                   overall_score ==
                                       IF parsed.val.overall_score.kind # "num"
                                       THEN _compute_overall_score(items)
                                       ELSE parsed.val.overall_score.v
                               IN  Ok([items |-> items, overall_score |-> overall_score])

\* bool(OpenAI and settings.OPENAI_API_KEY)
_openai_available(is_configured) == is_configured

_analyse_articles(is_configured, articles, response) ==
    IF articles = <<>> THEN Ok([items |-> <<>>, overall_score |-> 0])
    ELSE IF ~_openai_available(is_configured) THEN Ok(_analyse_with_heuristics(articles))
    ELSE LET oracle == _analyse_with_openai(articles, response)
         IN  IF oracle.exc = "ESGServiceError"
             THEN Ok(_analyse_with_heuristics(articles))
             ELSE oracle

(***************************************************************************)
(* States of the parts a specification leaves alone                        *)
(***************************************************************************)
NoKey == <<>>

Drawn(a, b) ==
    [a |-> a, b |-> b, derived |-> FALSE,
     normA |-> <<>>, normB |-> <<>>, renormA |-> <<>>,
     keyA |-> NoKey, keyB |-> NoKey, serviceKeyA |-> NoKey, serviceKeyB |-> NoKey]

NoFetch ==
    [configured |-> FALSE, response |-> TransportError, limit |-> 0, step |-> 0,
     called |-> FALSE, out |-> Ok(<<>>)]

NoAnalysis ==
    [configured |-> FALSE, articles |-> <<>>, response |-> ScoringTransportError,
     called |-> FALSE, out |-> Ok([items |-> <<>>, overall_score |-> 0])]

NoRepositoryCall ==
    [op |-> "none", user_id |-> 0, company_name |-> <<>>, limit |-> 0, result |-> <<>>]

KeyIdle == keyed = Drawn(<<>>, <<>>)
FetchIdle == fcall = NoFetch
AnalyseIdle == acall = NoAnalysis
ServiceIdle == configured = FALSE /\ cache = <<>> /\ req = <<>> /\ started = 0
HistoryIdle == history = <<>> /\ hcall = NoRepositoryCall

(***************************************************************************)
(* Key derivation on its own: two names are drawn, then their keys derived *)
(***************************************************************************)
Derivation(a, b) ==
    [a |-> a, b |-> b, derived |-> TRUE,
     normA |-> normalize_company_name(a),
     normB |-> normalize_company_name(b),
     renormA |-> normalize_company_name(normalize_company_name(a)),
     keyA |-> make_cache_key(a),
     keyB |-> make_cache_key(b),
     serviceKeyA |-> ServiceCacheKey(a),
     serviceKeyB |-> ServiceCacheKey(b)]

KeyInit ==
    /\ now = 0
    /\ \E a, b \in Names : keyed = Drawn(a, b)
    /\ FetchIdle /\ AnalyseIdle /\ ServiceIdle /\ HistoryIdle

DeriveKeys ==
    /\ ~keyed.derived
    /\ keyed' = Derivation(keyed.a, keyed.b)
    /\ UNCHANGED <<now, fcall, acall, configured, cache, req, started, history, hcall>>

KeyNext == DeriveKeys

SpecKey == KeyInit /\ [][KeyNext]_vars

(***************************************************************************)
(* The article source on its own: the inputs of one fetch_articles call    *)
(* are drawn, then the call is made                                        *)
(***************************************************************************)
FetchResponses == ResponsesOver(RawItems, MaxArticles)

FetchInit ==
    /\ now = MaxTime
    /\ \E is_configured \in BOOLEAN, response \in FetchResponses,
          limit \in 0..MaxLimit, step \in 0..1 :
        fcall = [configured |-> is_configured, response |-> response, limit |-> limit,
                 step |-> step, called |-> FALSE, out |-> Ok(<<>>)]
    /\ KeyIdle /\ AnalyseIdle /\ ServiceIdle /\ HistoryIdle

FetchCall ==
    /\ ~fcall.called
    /\ fcall' = [fcall EXCEPT
                    !.called = TRUE,
                    !.out = fetch_articles(fcall.configured, fcall.response,
                                           fcall.limit, now, fcall.step)]
    /\ UNCHANGED <<now, keyed, acall, configured, cache, req, started, history, hcall>>

FetchNext == FetchCall

SpecFetch == FetchInit /\ [][FetchNext]_vars

(***************************************************************************)
(* The scoring engine on its own: the inputs of one _analyse_articles call *)
(* are drawn, then the call is made                                        *)
(***************************************************************************)
ScoreInputs == {Invalid, Num(-1000), Num(3555), Num(25000)}

OracleItems ==
    OracleItemsWith({"T1"}, ScoreInputs, {Invalid, Num(3555)}, {Invalid, Num(25000)},
                    {Invalid, Num(5000)})

ScoringResponses ==
    {ScoringTransportError}
        \cup {Text(w, b) : w \in {"bare", "fenced"},
                b \in {ScoringInvalid, ScoringArray}
                        \cup {ScoringObject(items, overall) :
                                items \in SeqsUpTo(OracleItems, MaxOracleItems),
                                overall \in {Invalid, Num(4000)}}}

\* the articles a fetch can hand to the analysis: distinct urls, any text
AnalysedArticles ==
    {ToArticle(item, 0) :
        item \in RawItemsWith({"T1"}, Descriptions, {"U1"}, {[fmt |-> "aware", t |-> 1]})}

AnalyseInit ==
    /\ now = MaxTime
    /\ \E is_configured \in BOOLEAN, articles \in SeqsUpTo(AnalysedArticles, MaxArticles),
          response \in ScoringResponses :
        acall = [configured |-> is_configured, articles |-> articles,
                 response |-> response, called |-> FALSE,
                 out |-> Ok([items |-> <<>>, overall_score |-> 0])]
    /\ KeyIdle /\ FetchIdle /\ ServiceIdle /\ HistoryIdle

AnalyseCall ==
    /\ ~acall.called
    /\ acall' = [acall EXCEPT
                    !.called = TRUE,
                    !.out = _analyse_articles(acall.configured, acall.articles,
                                              acall.response)]
    /\ UNCHANGED <<now, keyed, fcall, configured, cache, req, started, history, hcall>>

AnalyseNext == AnalyseCall

SpecAnalyse == AnalyseInit /\ [][AnalyseNext]_vars

\* the scoring of one item: what the oracle can give for an axis or for
\* overall (no number, below 0, the ends of the range, inside it, above 100)
ScoreValues ==
    {Invalid, Num(-1000), Num(0), Num(3555), Num(7000), Num(10000), Num(25000)}

ScoredItems ==
    OracleItemsWith({"T1"}, ScoreValues, ScoreValues, ScoreValues, {Invalid, Num(5000)})

ItemReports ==
    {ScoringTransportError}
        \cup {Text("bare", ScoringObject(<<item>>, Invalid)) : item \in ScoredItems}

ScoreInit ==
    /\ now = MaxTime
    /\ \E is_configured \in BOOLEAN, article \in AnalysedArticles, response \in ItemReports :
        acall = [configured |-> is_configured, articles |-> <<article>>,
                 response |-> response, called |-> FALSE,
                 out |-> Ok([items |-> <<>>, overall_score |-> 0])]
    /\ KeyIdle /\ FetchIdle /\ ServiceIdle /\ HistoryIdle

ScoreNext == AnalyseCall

SpecScore == ScoreInit /\ [][ScoreNext]_vars

(***************************************************************************)
(* esg/services.py: ESGService.get_company_esg_profile, _build_profile,    *)
(* _fetch_company_overview, over the shared cache                          *)
(***************************************************************************)
MAX_ITEMS == 50

\* the concurrent callers (requests in flight)
Callers == {1, 2}

\* the names callers ask for: two spellings of one company, and another
ServiceNames ==
    {<<"A", " ", "a">>, <<"a", " ", " ", "a">>, <<"a">>}

ServiceKeys == {ServiceCacheKey(n) : n \in ServiceNames}

\* what the oracle answers to the overview prompt
OverviewResponses == {" Summary. "}

\* response_text.strip()
StripText(text) == IF text = " Summary. " THEN "Summary." ELSE text

_fetch_company_overview(is_configured, company_name, response) ==
    IF ~_openai_available(is_configured)
    THEN [text |-> "Overview unavailable. Configure OPENAI_API_KEY.", of |-> company_name]
    ELSE IF response = "transport_error"
         THEN [text |-> "Overview unavailable.", of |-> company_name]
         ELSE [text |-> StripText(response), of |-> company_name]

\* what the research oracle answers in a run of the service
ItemDated == [title |-> "T1", description |-> "Oil Spill off the coast", url |-> "U1",
              source |-> "S", published_at |-> [fmt |-> "aware", t |-> 1]]
ItemUndated == [title |-> "T1", description |-> "Strike over audit", url |-> "U2",
                source |-> "S", published_at |-> [fmt |-> "missing", t |-> 0]]

ServiceFetchResponses ==
    {TransportError,
     Text("prose", NoPayload),
     Text("bare", ArrayPayload),
     Text("fenced", ObjectPayload(<<ItemDated>>)),
     Text("bare", ObjectPayload(<<ItemDated, ItemUndated>>))}

\* what the reasoning oracle answers to the scoring prompt
ItemScored ==
    [title |-> "T1", description |-> "", date |-> <<"iso", 1>>, source |-> "S",
     url |-> "U1",
     scores |-> [environment |-> Num(3555), social |-> Invalid,
                 governance |-> Num(25000), overall |-> Invalid]]

ServiceScoringResponses ==
    {ScoringTransportError,
     Text("bare", ScoringArray),
     Text("bare", ScoringObject(<<ItemScored>>, Invalid))}

\* _build_profile: the profile, or the exception that escapes it; clock is
\* datetime.utcnow() at assembly
_build_profile(is_configured, company_name, overview_response, fetch_response, scoring_response, clock) ==
    LET overview == _fetch_company_overview(is_configured, company_name, overview_response)
        articles == fetch_articles(is_configured, fetch_response, MAX_ITEMS, clock, 0)
    IN  IF articles.exc # "none" THEN articles
        ELSE LET analysis == _analyse_articles(is_configured, articles.val,
                                               scoring_response)
             IN  IF analysis.exc # "none" THEN analysis
                 ELSE Ok([company |-> company_name,
                          generated_at |-> isoformat(utcnow(clock)),
                          generated_at_display |-> <<"at", clock>>,
                          overview |-> overview,
                          overall_score |-> analysis.val.overall_score,
                          items |-> analysis.val.items,
                          total_items |-> Len(analysis.val.items),
                          search_window_days |-> LOOKBACK_DAYS])

\* the calls a build makes to the oracle: the overview prompt, the web
\* search, and the scoring prompt when the search returned articles
OracleCallsOfBuild(is_configured, fetch_response, clock) ==
    IF ~is_configured THEN 0
    ELSE LET articles == fetch_articles(is_configured, fetch_response, MAX_ITEMS, clock, 0)
         IN  IF articles.exc = "none" /\ articles.val # <<>> THEN 3 ELSE 2

\* cache.get(key): the value set, unless none was set or it has expired
cache_get(store, key, clock) ==
    IF store[key] # <<>> /\ clock < store[key][1].expires
    THEN <<store[key][1].value>>
    ELSE <<>>

\* a slip: a profile without items is not stored
cache_set_unless_empty(store, key, value, timeout, clock) ==
    IF value.items = <<>> THEN store
    ELSE [store EXCEPT ![key] = <<[value |-> value, expires |-> clock + timeout]>>]

\* cache.set(key, value, timeout)
cache_set(store, key, value, timeout, clock) ==
    [store EXCEPT ![key] = <<[value |-> value, expires |-> clock + timeout]>>]

\* a slip: the cached value is never taken for a hit
IsHit_never(cached_value) == FALSE

\* if cached_value: a profile is a non-empty dict, so any value found is true
IsHit(cached_value) == cached_value # <<>>

NoProfile == <<>>

Max(a, b) == IF a >= b THEN a ELSE b

RECURSIVE MaxOver(_, _)
MaxOver(f, S) ==
    IF S = {} THEN 0
    ELSE LET x == CHOOSE y \in S : TRUE IN Max(f[x], MaxOver(f, S \ {x}))

IdleRequest ==
    [pc |-> "idle", company_name |-> <<>>, normalized |-> <<>>, cache_key |-> NoKey,
     found |-> NoProfile, expired |-> FALSE, profile |-> NoProfile,
     result |-> NoProfile, from_cache |-> FALSE, exc |-> "none",
     oracle_calls |-> 0, cache_writes |-> 0, write_no |-> 0]

ServiceInit ==
    /\ now = 0
    /\ configured \in BOOLEAN
    /\ cache = [k \in ServiceKeys |-> <<>>]
    /\ req = [c \in Callers |-> IdleRequest]
    /\ started = 0
    /\ KeyIdle /\ FetchIdle /\ AnalyseIdle /\ HistoryIdle

\* lines 44-48: normalize, derive the key, cache.get, return on a hit.  A
\* caller whose previous call has ended (returned or raised) may call again.
Lookup(c, company_name) ==
    /\ req[c].pc \in {"idle", "returned", "raised"}
    /\ started < MaxCalls
    /\ started' = started + 1
    /\ LET normalized == normalize_company_name(company_name)
           cache_key == make_cache_key(normalized)
           cached_value == cache_get(cache, cache_key, now)
           begun == [IdleRequest EXCEPT
                        !.company_name = company_name,
                        !.normalized = normalized,
                        !.cache_key = cache_key,
                        !.found = cached_value,
                        !.expired = (cache[cache_key] # <<>> /\ cached_value = <<>>)]
       IN  req' = [req EXCEPT ![c] =
                    IF IsHit(cached_value)
                    THEN [begun EXCEPT !.pc = "returned", !.result = cached_value,
                                       !.from_cache = TRUE]
                    ELSE [begun EXCEPT !.pc = "build"]]
    /\ UNCHANGED <<now, keyed, fcall, acall, configured, cache, history, hcall>>

\* lines 50-52: _build_profile(normalized) with what the oracle answers, then
\* cache.set(cache_key, profile, timeout) and the return of the profile; an
\* exception of the build ends the call before the cache is written.  The
\* build works on data of its own, so its steps are one step here, taken at
\* the instant the profile is assembled and stored.
BuildAndStore(c, overview_response, fetch_response, scoring_response) ==
    /\ req[c].pc = "build"
    /\ LET built == _build_profile(configured, req[c].normalized, overview_response,
                                   fetch_response, scoring_response, now)
           calls == OracleCallsOfBuild(configured, fetch_response, now)
       IN  IF built.exc # "none"
           THEN /\ req' = [req EXCEPT ![c] =
                            [@ EXCEPT !.pc = "raised", !.exc = built.exc,
                                      !.oracle_calls = calls]]
                /\ UNCHANGED cache
           ELSE /\ cache' = cache_set(cache, req[c].cache_key, built.val,
                                      CacheTimeout, now)
                /\ req' = [req EXCEPT ![c] =
                            [@ EXCEPT !.pc = "returned", !.profile = <<built.val>>,
                                      !.result = <<built.val>>, !.from_cache = FALSE,
                                      !.oracle_calls = calls,
                                      !.cache_writes = req[c].cache_writes + 1,
                                      !.write_no =
                                          1 + MaxOver([d \in Callers |-> req[d].write_no],
                                                      Callers)]]
    /\ UNCHANGED <<now, keyed, fcall, acall, configured, started, history, hcall>>

Tick ==
    /\ now < MaxTime
    /\ now' = now + 1
    /\ UNCHANGED <<keyed, fcall, acall, configured, cache, req, started, history, hcall>>

Next ==
    \/ \E c \in Callers, company_name \in ServiceNames : Lookup(c, company_name)
    \/ \E c \in Callers, overview_response \in OverviewResponses,
          fetch_response \in ServiceFetchResponses,
          scoring_response \in ServiceScoringResponses :
            BuildAndStore(c, overview_response, fetch_response, scoring_response)
    \/ Tick

Init == ServiceInit

Spec == Init /\ [][Next]_vars

(***************************************************************************)
(* esg/history.py: SearchHistoryRepository over the SearchHistory table    *)
(***************************************************************************)
\* user ids: 0 is the falsy one, no user has it
Users == {0, 1, 2}

\* company names handed to the repository: "", two spellings of one name, another name
HistoryNames == {<<>>, <<"A">>, <<" ", "a">>, <<"A", "a">>}

\* a slip: only the user id is tested
IsNoSearch_user_only(user_id, company_name) == user_id = 0

\* if not user_id or not company_name: return
IsNoSearch(user_id, company_name) == user_id = 0 \/ company_name = <<>>

\* SearchHistory.objects.create(user_id, company_name=normalized, searched_at=now)
record_search(table, user_id, company_name, clock) ==
    IF IsNoSearch(user_id, company_name) THEN table
    ELSE Append(table, [user_id |-> user_id,
                        company_name |-> normalize_company_name(company_name),
                        searched_at |-> clock])

\* filter(user_id=user_id).order_by('-searched_at'): the user's rows, latest
\* first; rows of one instant come in an order the database chooses
IsUserRowsDescending(table, user_id, order) ==
    /\ \A i \in 1..Len(order) : table[order[i]].user_id = user_id
    /\ \A i \in 1..Len(table) :
          table[i].user_id = user_id => \E k \in 1..Len(order) : order[k] = i
    /\ \A k, l \in 1..Len(order) :
          k < l => /\ order[k] # order[l]
                   /\ table[order[k]].searched_at >= table[order[l]].searched_at

QuerySets(table, user_id) ==
    {[k \in 1..Len(order) |-> table[order[k]]] :
        order \in {o \in SeqsUpTo(1..Len(table), Len(table)) :
                      IsUserRowsDescending(table, user_id, o)}}

\* the loop over qs: skip a name seen (lowercased), append, stop at limit
RECURSIVE RecentLoop(_, _, _, _)
RecentLoop(qs, seen, results, limit) ==
    IF qs = <<>> THEN results
    ELSE LET entry == Head(qs)
             key == lower(entry.company_name)
         IN  IF key \in seen THEN RecentLoop(Tail(qs), seen, results, limit)
             ELSE LET appended == Append(results,
                                         [company_name |-> entry.company_name,
                                          searched_at |-> entry.searched_at])
                  IN  IF Len(appended) >= limit THEN appended
                      ELSE RecentLoop(Tail(qs), seen \cup {key}, appended, limit)

get_recent_searches(user_id, limit, qs) ==
    IF user_id = 0 THEN <<>> ELSE RecentLoop(qs, {}, <<>>, limit)

HistoryInit ==
    /\ now = 0
    /\ history = <<>>
    /\ hcall = NoRepositoryCall
    /\ KeyIdle /\ FetchIdle /\ AnalyseIdle /\ ServiceIdle

RecordSearch(user_id, company_name) ==
    /\ Len(history) < MaxHistory
    /\ history' = record_search(history, user_id, company_name, now)
    /\ hcall' = [NoRepositoryCall EXCEPT !.op = "record", !.user_id = user_id,
                                         !.company_name = company_name]
    /\ UNCHANGED <<now, keyed, fcall, acall, configured, cache, req, started>>

GetRecentSearches(user_id, limit) ==
    /\ \E qs \in QuerySets(history, user_id) :
          hcall' = [NoRepositoryCall EXCEPT !.op = "recent", !.user_id = user_id,
                                            !.limit = limit,
                                            !.result = get_recent_searches(user_id, limit, qs)]
    /\ UNCHANGED <<now, keyed, fcall, acall, configured, cache, req, started, history>>

HistoryNext ==
    \/ \E user_id \in Users, company_name \in HistoryNames :
          RecordSearch(user_id, company_name)
    \/ \E user_id \in Users, limit \in 0..MaxLimit : GetRecentSearches(user_id, limit)
    \/ Tick

SpecHistory == HistoryInit /\ [][HistoryNext]_vars

(***************************************************************************)
(*                         Properties of the claims                        *)
(***************************************************************************)

\* the words of a name: its maximal runs of non-whitespace, lowercased
RECURSIVE WordsOf(_, _)
WordsOf(s, word) ==
    IF s = <<>> THEN (IF word = <<>> THEN <<>> ELSE <<word>>)
    ELSE IF Head(s) \in Whitespace
         THEN (IF word = <<>> THEN <<>> ELSE <<word>>) \o WordsOf(Tail(s), <<>>)
         ELSE WordsOf(Tail(s), word \o <<LowerChar(Head(s))>>)

\* two spellings of one company: the same words, whatever the case and the
\* whitespace around and between them
SameCompany(a, b) == WordsOf(a, <<>>) = WordsOf(b, <<>>)

\* C3: cache_key is insensitive to letter case and to leading, trailing and
\* repeated internal whitespace: two spellings of one company get one cache
\* key, through make_cache_key and through the key the service looks up, and
\* normalize is idempotent.
C3_CacheKeyInsensitive ==
    keyed.derived =>
        /\ SameCompany(keyed.a, keyed.b) =>
              /\ keyed.keyA = keyed.keyB
              /\ keyed.serviceKeyA = keyed.serviceKeyB
        /\ keyed.renormA = keyed.normA
        /\ keyed.serviceKeyA = keyed.keyA

\* C3 witness: "A a" and "a  a" (other case, a doubled internal space) have
\* been keyed and got the same key.
C3_Witness ==
    /\ keyed.derived
    /\ keyed.a = <<"A", " ", "a">>
    /\ keyed.b = <<"a", " ", " ", "a">>
    /\ keyed.keyA = keyed.keyB
    /\ keyed.normB = <<"a", " ", "a">>

\* the oracle text holds no JSON object
NoObjectInText(response) == response.kind = "text" /\ response.body.json # "object"

\* C4: fetch never raises to its caller, and returns the empty sequence when
\* the oracle is unconfigured, when the call fails at transport level, and
\* when no JSON object can be extracted from the response.
C4_FetchNeverRaises ==
    fcall.called =>
        /\ fcall.out.exc = "none"
        /\ (\/ ~fcall.configured
            \/ fcall.response.kind = "transport_error"
            \/ NoObjectInText(fcall.response)) => fcall.out = Ok(<<>>)

\* C7: every article fetch returns has a timezone-aware published_at.
C7_PublishedAtAware ==
    (fcall.called /\ fcall.out.exc = "none") =>
        \A i \in 1..Len(fcall.out.val) : fcall.out.val[i].published_at.aware

\* the raw list of a response an object was extracted from
HasRawList(response) == response.kind = "text" /\ response.body.json = "object"
RawList(response) ==
    IF response.body.has_articles THEN response.body.articles ELSE <<>>

\* the instant the i-th raw item is published at: the one its published_at
\* denotes, and the instant of the fetch when it has none
ClaimedInstant(raw, i, clock, step) ==
    IF raw[i].published_at.fmt \in {"naive", "aware"} THEN raw[i].published_at.t
    ELSE clock + (i - 1) * step

ClaimedIdentity(item) == IF item.url # "" THEN item.url ELSE item.title

\* the raw items that survive deduplication: a non-empty identity key no
\* earlier item has
Survivors(raw) ==
    {i \in 1..Len(raw) :
        /\ ClaimedIdentity(raw[i]) # ""
        /\ \A j \in 1..(i - 1) : ClaimedIdentity(raw[j]) # ClaimedIdentity(raw[i])}

\* the place of survivor i in the descending, input-order-on-ties order
ClaimedRank(raw, i, clock, step) ==
    1 + Cardinality({j \in Survivors(raw) :
            \/ ClaimedInstant(raw, j, clock, step) > ClaimedInstant(raw, i, clock, step)
            \/ /\ ClaimedInstant(raw, j, clock, step) = ClaimedInstant(raw, i, clock, step)
               /\ j < i})

IsArticleOf(article, raw, i, clock, step) ==
    /\ article.title = raw[i].title
    /\ article.url = raw[i].url
    /\ article.description = raw[i].description
    /\ article.published_at.t = ClaimedInstant(raw, i, clock, step)

FetchedAsClaimed(call, clock) ==
    LET raw == RawList(call.response)
    IN  /\ call.out.exc = "none"
        /\ Len(call.out.val) = Min(call.limit, Cardinality(Survivors(raw)))
        /\ \A i \in Survivors(raw) :
              ClaimedRank(raw, i, clock, call.step) <= call.limit =>
                  IsArticleOf(call.out.val[ClaimedRank(raw, i, clock, call.step)],
                              raw, i, clock, call.step)

\* C10: the list fetch returns is the raw list deduplicated by identity key
\* (first occurrence kept, items with neither url nor title dropped), sorted
\* descending by published_at with ties in input order, cut to limit items.
C10_DedupSortTruncate ==
    (fcall.called /\ fcall.configured /\ HasRawList(fcall.response)) =>
        FetchedAsClaimed(fcall, now)

\* the oracle path of an analysis failed: the call to the oracle failed at
\* transport level, or json.loads cannot parse its answer
OraclePathFailed(call) ==
    \/ call.response.kind = "transport_error"
    \/ call.response.wrap # "bare"
    \/ call.response.body.json = "invalid"

\* C5: for a non-empty article list, analyse returns the heuristic scoring of
\* the same articles whenever the reasoning oracle is unavailable or the
\* oracle path fails, and no failure of the oracle path escapes analyse.
C5_HeuristicFallback ==
    (acall.called /\ acall.articles # <<>>) =>
        /\ acall.out.exc = "none"
        /\ (~acall.configured \/ OraclePathFailed(acall)) =>
              acall.out.val = _analyse_with_heuristics(acall.articles)

Ended(c) == req[c].pc \in {"returned", "raised"}

\* C1: a call that finds a live entry (a second call within the TTL) returns
\* exactly the profile stored there, which the call that stored it returned,
\* with from_cache = True; a call made after the entry has expired rebuilds
\* the profile and returns it with from_cache = False.
C1_CachedWithinTtlRebuiltAfter ==
    \A c \in Callers :
        /\ (req[c].pc # "idle" /\ req[c].found # NoProfile) =>
              /\ req[c].pc = "returned"
              /\ req[c].from_cache
              /\ req[c].result = req[c].found
        /\ (Ended(c) /\ req[c].expired) =>
              /\ req[c].pc = "returned"
              /\ ~req[c].from_cache
              /\ req[c].result # NoProfile
              /\ req[c].result = req[c].profile

\* C2, in every state: a call that found a cache entry has returned it with
\* cache_hit = true, having made no call to the oracle and no cache write.
C2_HitState ==
    \A c \in Callers :
        (req[c].pc # "idle" /\ req[c].found # NoProfile) =>
            /\ req[c].pc = "returned"
            /\ req[c].from_cache
            /\ req[c].result = req[c].found
            /\ req[c].oracle_calls = 0
            /\ req[c].cache_writes = 0

\* C2, in every step: the step in which a call returns a hit leaves the
\* cache as it was.
C2_HitStep ==
    \A c \in Callers :
        (req'[c] # req[c] /\ req'[c].pc = "returned" /\ req'[c].from_cache) =>
            cache' = cache

\* C2: on a cache hit get_company_esg_profile returns with cache_hit = true
\* without recomputing: no overview, fetch or scoring call, no cache write,
\* and the cache is left unchanged.
C2_HitRecomputesNothing == [](C2_HitState) /\ [][C2_HitStep]_vars

\* C2 witness: the second call of a run has been answered from the cache.
C2_Witness ==
    /\ started = 2
    /\ \E c \in Callers :
          /\ req[c].pc = "returned"
          /\ req[c].from_cache
          /\ req[c].result = cache_get(cache, req[c].cache_key, now)
          /\ req[c].result # NoProfile

\* C6: every call that misses writes the cache exactly once, after its build,
\* and returns its own profile with from_cache = False; when all callers have
\* missed on one key and finished, the entry holds the profile of the one
\* that wrote last.
C6_WriteOncePerMiss ==
    /\ \A c \in Callers :
          (Ended(c) /\ req[c].found = NoProfile) =>
              /\ req[c].cache_writes = 1
              /\ req[c].pc = "returned"
              /\ ~req[c].from_cache
              /\ req[c].result = req[c].profile
    /\ \A c \in Callers :
          (/\ \A d \in Callers :
                 /\ req[d].pc = "returned"
                 /\ ~req[d].from_cache
                 /\ req[d].cache_key = req[c].cache_key
                 /\ req[d].write_no <= req[c].write_no) =>
              cache[req[c].cache_key] # <<>>
                  /\ <<cache[req[c].cache_key][1].value>> = req[c].result

\* the rows of a user, and the lowercased names among them
RowsOf(user_id) == {i \in 1..Len(history) : history[i].user_id = user_id}
NamesOf(user_id) == {lower(history[i].company_name) : i \in RowsOf(user_id)}

\* C8: get_recent_searches returns the user's records most recent first, for
\* each company name (compared case-insensitively) only its most recent
\* record, cut to limit: no two entries differ only in case, and there are
\* never more than limit entries.
C8_RecentDedupedAndCapped ==
    hcall.op = "recent" =>
        LET result == hcall.result
        IN  /\ Len(result) <= hcall.limit
            /\ Len(result) = Min(hcall.limit, Cardinality(NamesOf(hcall.user_id)))
            /\ \A k, l \in 1..Len(result) :
                  k < l => /\ result[k].searched_at >= result[l].searched_at
                           /\ lower(result[k].company_name) # lower(result[l].company_name)
            /\ \A k \in 1..Len(result) :
                  /\ \E i \in RowsOf(hcall.user_id) :
                        /\ history[i].company_name = result[k].company_name
                        /\ history[i].searched_at = result[k].searched_at
                  /\ \A i \in RowsOf(hcall.user_id) :
                        lower(history[i].company_name) = lower(result[k].company_name)
                            => history[i].searched_at <= result[k].searched_at

\* C9, in every step: a record_search with a falsy user id or an empty
\* company name leaves the table as it was; any other appends exactly one
\* row with the user id, the normalized name and the current instant; and no
\* step changes or removes a row.
C9_RecordStep ==
    /\ (now' = now /\ hcall'.op = "record") =>
          IF hcall'.user_id = 0 \/ hcall'.company_name = <<>>
          THEN history' = history
          ELSE history' = Append(history,
                                 [user_id |-> hcall'.user_id,
                                  company_name |->
                                      normalize_company_name(hcall'.company_name),
                                  searched_at |-> now])
    /\ Len(history') >= Len(history)
    /\ SubSeq(history', 1, Len(history)) = history

\* C9: record_search is a no-op for user_id = 0 or an empty company_name,
\* otherwise it appends exactly one record; the store is append-only.
C9_RecordAppendsOrNothing == [][C9_RecordStep]_vars

\* C9 witness: after a row was recorded, a record_search with an empty
\* company name has been made, and the table still holds that one row.
C9_Witness ==
    /\ hcall.op = "record"
    /\ hcall.user_id = 1
    /\ hcall.company_name = <<>>
    /\ Len(history) = 1
    /\ history[1].company_name = <<"a">>

\* the axis score claimed for a value the oracle gave: the number, brought
\* into [0, 100]; 0 for what is no number
ClaimedAxis(value) ==
    IF value.kind # "num" THEN 0
    ELSE IF value.v < 0 THEN 0
    ELSE IF value.v > 100 * 100 THEN 100 * 100
    ELSE value.v

\* overall is (4*E + 3*S + 3*G)/10 rounded to a hundredth: no hundredth is
\* nearer to the quotient (scores are kept in hundredths)
IsWeightedOverall(scores) ==
    LET tenfold == 4 * scores.environment + 3 * scores.social + 3 * scores.governance
    IN  /\ 10 * scores.overall - tenfold <= 5
        /\ tenfold - 10 * scores.overall <= 5

AxesInRange(scores) ==
    \A axis \in {"environment", "social", "governance"} :
        scores[axis] >= 0 /\ scores[axis] <= 100 * 100

\* the analysis took the oracle path and it returned
OnOraclePath(call) == call.configured /\ ~OraclePathFailed(call)

\* C11: an item whose overall the oracle did not supply (every item of the
\* heuristic path; on the oracle path an item whose overall is missing or
\* invalid) has overall = round((4*E + 3*S + 3*G)/10, 2) of its normalized
\* axis scores, each in [0, 100]; on the heuristic path an environment-only
\* keyword hit (70, 0, 0) has overall 28.0.
C11_WeightedOverall ==
    (acall.called /\ acall.articles # <<>> /\ acall.out.exc = "none") =>
        LET items == acall.out.val.items
        IN  /\ \A k \in 1..Len(items) : AxesInRange(items[k].scores)
            /\ ~OnOraclePath(acall) =>
                  /\ Len(items) = Len(acall.articles)
                  /\ \A k \in 1..Len(items) :
                        /\ IsWeightedOverall(items[k].scores)
                        /\ (/\ items[k].scores.environment = 70 * 100
                            /\ items[k].scores.social = 0
                            /\ items[k].scores.governance = 0) =>
                               items[k].scores.overall = 28 * 100
            /\ OnOraclePath(acall) =>
                  \A i \in 1..Len(acall.response.body.items) :
                      LET given == acall.response.body.items[i].scores
                      IN  given.overall.kind # "num" =>
                              \E k \in 1..Len(items) :
                                  /\ items[k].scores.environment = ClaimedAxis(given.environment)
                                  /\ items[k].scores.social = ClaimedAxis(given.social)
                                  /\ items[k].scores.governance = ClaimedAxis(given.governance)
                                  /\ IsWeightedOverall(items[k].scores)

\* C11 witness: the heuristic path has scored an article that only hits an
\* environment keyword: (70, 0, 0) and overall 28.0.
C11_Witness ==
    /\ acall.called
    /\ ~acall.configured
    /\ acall.out.exc = "none"
    /\ \E k \in 1..Len(acall.out.val.items) :
          /\ acall.out.val.items[k].description = "Oil Spill off the coast"
          /\ acall.out.val.items[k].scores =
                 [environment |-> 70 * 100, social |-> 0, governance |-> 0,
                  overall |-> 28 * 100]

\* caller c has ended a call that missed and returned a zero-item profile:
\* overall_score 0, total_items 0, no items (the fetch gave no article)
DegradedMiss(c) ==
    /\ req[c].pc = "returned"
    /\ ~req[c].from_cache
    /\ req[c].result # NoProfile
    /\ req[c].result[1].overall_score = 0
    /\ req[c].result[1].total_items = 0
    /\ req[c].result[1].items = <<>>

\* the instant the profile c returned was assembled and stored
StoredAt(c) == req[c].result[1].generated_at[2]

\* this step is the lookup of a call of caller d
LooksUp(d) ==
    /\ started' = started + 1
    /\ \A e \in Callers \ {d} : req'[e] = req[e]
    /\ req'[d].pc \in {"build", "returned"}
    /\ req'[d].pc = "returned" => req'[d].from_cache

ServedFrom(c, d) ==
    /\ req'[d].pc = "returned"
    /\ req'[d].from_cache
    /\ req'[d].oracle_calls = 0
    /\ req'[d].result = req[c].result

\* a miss that returns has stored the profile it returns, with the TTL
MissStores ==
    \A c \in Callers :
        (req[c].pc = "build" /\ req'[c].pc = "returned") =>
            /\ req'[c].result # NoProfile
            /\ cache'[req[c].cache_key] =
                   <<[value |-> req'[c].result[1], expires |-> now + CacheTimeout]>>

\* C12 as stated, in every step: a miss stores the profile it built; and
\* once a call has returned a zero-item profile from a miss, every call for
\* the same company that starts within the TTL returns that profile with
\* from_cache = True and calls no oracle.
C12_DegradedServedStep ==
    /\ MissStores
    /\ \A c, d \in Callers :
          (/\ DegradedMiss(c)
           /\ LooksUp(d)
           /\ req'[d].cache_key = req[c].cache_key
           /\ now < StoredAt(c) + CacheTimeout) => ServedFrom(c, d)

HoldsEntryOf(c) ==
    cache[req[c].cache_key] =
        <<[value |-> req[c].result[1], expires |-> StoredAt(c) + CacheTimeout]>>

\* C12 amended, in every step: as stated, for as long as the entry is the one
\* that call stored; a concurrent miss that writes later replaces it.
C12_DegradedServedWhileHeldStep ==
    /\ MissStores
    /\ \A c, d \in Callers :
          (/\ DegradedMiss(c)
           /\ HoldsEntryOf(c)
           /\ LooksUp(d)
           /\ req'[d].cache_key = req[c].cache_key
           /\ now < StoredAt(c) + CacheTimeout) => ServedFrom(c, d)

C13_ProfileOfRequestedCompany ==
    /\ \A c \in Callers :
          req[c].pc = "returned" =>
              /\ req[c].result # NoProfile
              /\ SameCompany(req[c].result[1].company, req[c].company_name)
              /\ lower(req[c].result[1].company)
                     = lower(normalize_company_name(req[c].company_name))
              /\ ~req[c].from_cache =>
                     req[c].result[1].company = normalize_company_name(req[c].company_name)
              /\ req[c].from_cache => req[c].result = req[c].found
    /\ \A k \in ServiceKeys :
          cache[k] # <<>> =>
              /\ cache[k][1].value.company = normalize_company_name(cache[k][1].value.company)
              /\ \A n \in ServiceNames :
                    SameCompany(n, cache[k][1].value.company) <=> ServiceCacheKey(n) = k

\* C13 witness: a request for "a  a" has been answered from the cache with
\* the profile a request for "A a" populated, while another company's
\* profile lies in the cache too.
C13_Witness ==
    \E c \in Callers :
        /\ req[c].pc = "returned"
        /\ req[c].from_cache
        /\ req[c].company_name = <<"a", " ", " ", "a">>
        /\ req[c].result # NoProfile
        /\ req[c].result[1].company = <<"A", " ", "a">>
        /\ cache[ServiceCacheKey(<<"a">>)] # <<>>

====
